---- MODULE Spec2Model ----
(***************************************************************************)
(* Model of templates/python3/index.py: the Flask adapter that turns an    *)
(* HTTP request into (Event, Context), calls function.handler.handle and   *)
(* formats what the handler returns into the tuple handed back to Flask.   *)
(*                                                                         *)
(* Python values are tagged tuples <<type, payload>>; the text of a str is *)
(* a TLA+ string.  A dict is the sequence of its (key, value) items in     *)
(* insertion order, with pairwise different keys.                          *)
(***************************************************************************)
EXTENDS Integers, Sequences, FiniteSets, TLC

VARIABLES
    environ,        \* os.environ: a set of <<name, value>> pairs
    pc,             \* per request: how far call_handler has come
    request,        \* per request: flask.request, the request being served
    event,          \* per request: the local event of call_handler
    context,        \* per request: the local context of call_handler
    handlerCalls,   \* per request: the (event, context) of each handler.handle call
    response_data,  \* per request: the local response_data of call_handler
    resp            \* per request: what call_handler returned to Flask

vars == <<environ, pc, request, event, context, handlerCalls, response_data, resp>>

----------------------------------------------------------------------------
(* Bounds of the model. *)

\* Number of requests in flight at once under Spec.
NumRequests == 2

\* Largest number of entries of a generated dict or list.
MaxEntries == 2

----------------------------------------------------------------------------
(* Python values. *)

PyNone == <<"NoneType">>
PyInt(n) == <<"int", n>>
PyBool(b) == <<"bool", b>>
PyStr(s) == <<"str", s>>
PyBytes(s) == <<"bytes", s>>
PyList(xs) == <<"list", xs>>
PyTuple(xs) == <<"tuple", xs>>
PyDict(items) == <<"dict", items>>

\* A raised exception, as the outcome of a call.
Raise(kind) == <<"raise", kind>>

\* flask.Response as built by jsonify: the payload and the mimetype.
Response(data, mimetype) == <<"Response", data, mimetype>>

TypeOf(v) == v[1]
ValOf(v) == v[2]
IsRaise(v) == TypeOf(v) = "raise"

\* key in d, for a dict d.
Contains(d, key) == \E i \in 1..Len(ValOf(d)) : ValOf(d)[i][1] = key

\* d[key], for a dict d that contains key.
Lookup(d, key) ==
    LET i == CHOOSE j \in 1..Len(ValOf(d)) : ValOf(d)[j][1] = key
    IN ValOf(d)[i][2]

----------------------------------------------------------------------------
(* Text. *)

Char(s, i) == SubSeq(s, i, i)
Drop(s, n) == SubSeq(s, n + 1, Len(s))
StartsWith(s, p) == Len(s) >= Len(p) /\ SubSeq(s, 1, Len(p)) = p

Digits == "0123456789"
IsDigit(c) == \E d \in 1..10 : Char(Digits, d) = c
DigitVal(c) == (CHOOSE d \in 1..10 : Char(Digits, d) = c) - 1

\* The printable ASCII characters in code order: codes 32..95 and 97..126.
AsciiLow == " !\"#$%&'()*+,-./0123456789:;<=>?@ABCDEFGHIJKLMNOPQRSTUVWXYZ[\\]^_"
AsciiHigh == "abcdefghijklmnopqrstuvwxyz{|}~"

\* ord(c)
Ord(c) ==
    IF \E i \in 1..Len(AsciiLow) : Char(AsciiLow, i) = c
    THEN 31 + (CHOOSE i \in 1..Len(AsciiLow) : Char(AsciiLow, i) = c)
    ELSE 96 + (CHOOSE i \in 1..Len(AsciiHigh) : Char(AsciiHigh, i) = c)

RECURSIVE NatStr(_)
NatStr(n) ==
    IF n < 10 THEN Char(Digits, n + 1)
    ELSE NatStr(n \div 10) \o Char(Digits, (n % 10) + 1)

\* str(n) and repr(n) of an int.
IntStr(n) == IF n < 0 THEN "-" \o NatStr(0 - n) ELSE NatStr(n)

\* a < b for two str, as Python compares them (by code point).
RECURSIVE StrLess(_, _)
StrLess(a, b) ==
    IF b = "" THEN FALSE
    ELSE IF a = "" THEN TRUE
    ELSE IF Char(a, 1) = Char(b, 1) THEN StrLess(Drop(a, 1), Drop(b, 1))
    ELSE Ord(Char(a, 1)) < Ord(Char(b, 1))

RECURSIVE Join(_, _)
Join(parts, sep) ==
    IF Len(parts) = 0 THEN ""
    ELSE IF Len(parts) = 1 THEN parts[1]
    ELSE parts[1] \o sep \o Join(Tail(parts), sep)

\* repr(v) of the built-in types, as str() applies it inside containers.
RECURSIVE PyRepr(_)
PyRepr(v) ==
    CASE TypeOf(v) = "NoneType" -> "None"
      [] TypeOf(v) = "bool" -> (IF ValOf(v) THEN "True" ELSE "False")
      [] TypeOf(v) = "int" -> IntStr(ValOf(v))
      [] TypeOf(v) = "str" -> ("'" \o ValOf(v) \o "'")
      [] TypeOf(v) = "bytes" -> ("b'" \o ValOf(v) \o "'")
      [] TypeOf(v) = "list" ->
            "[" \o Join([i \in 1..Len(ValOf(v)) |-> PyRepr(ValOf(v)[i])], ", ") \o "]"
      [] TypeOf(v) = "tuple" ->
            IF Len(ValOf(v)) = 1 THEN "(" \o PyRepr(ValOf(v)[1]) \o ",)"
            ELSE "(" \o Join([i \in 1..Len(ValOf(v)) |-> PyRepr(ValOf(v)[i])], ", ") \o ")"
      [] TypeOf(v) = "dict" ->
            "{" \o Join([i \in 1..Len(ValOf(v)) |->
                           PyRepr(ValOf(v)[i][1]) \o ": " \o PyRepr(ValOf(v)[i][2])], ", ") \o "}"

\* str(v): the text itself for a str, repr(v) for the other built-in types.
PyStrOf(v) == IF TypeOf(v) = "str" THEN ValOf(v) ELSE PyRepr(v)

\* a == b for two Python values.
RECURSIVE PyEq(_, _)
PyEq(a, b) ==
    LET num(v) == IF TypeOf(v) = "bool" THEN (IF ValOf(v) THEN 1 ELSE 0) ELSE ValOf(v)
        isnum(v) == TypeOf(v) \in {"int", "bool"}
    IN  IF isnum(a) \/ isnum(b) THEN isnum(a) /\ isnum(b) /\ num(a) = num(b)
        ELSE IF TypeOf(a) # TypeOf(b) THEN FALSE
        ELSE IF TypeOf(a) = "NoneType" THEN TRUE
        ELSE IF TypeOf(a) \in {"str", "bytes"} THEN ValOf(a) = ValOf(b)
        ELSE IF TypeOf(a) \in {"list", "tuple"} THEN
            /\ Len(ValOf(a)) = Len(ValOf(b))
            /\ \A i \in 1..Len(ValOf(a)) : PyEq(ValOf(a)[i], ValOf(b)[i])
        ELSE IF TypeOf(a) = "dict" THEN
            /\ Len(ValOf(a)) = Len(ValOf(b))
            /\ \A i \in 1..Len(ValOf(a)) : \E j \in 1..Len(ValOf(b)) :
                  /\ PyEq(ValOf(a)[i][1], ValOf(b)[j][1])
                  /\ PyEq(ValOf(a)[i][2], ValOf(b)[j][2])
        ELSE a = b

----------------------------------------------------------------------------
(* flask.jsonify, imported at line 2 and called by format_body: json.dumps  *)
(* with sort_keys and the compact separators, a newline appended, wrapped   *)
(* in a Response of mimetype application/json.                              *)

RECURSIVE JsonEscape(_)
JsonEscape(s) ==
    IF s = "" THEN ""
    ELSE IF Char(s, 1) = "\"" THEN "\\\"" \o JsonEscape(Drop(s, 1))
    ELSE IF Char(s, 1) = "\\" THEN "\\\\" \o JsonEscape(Drop(s, 1))
    ELSE Char(s, 1) \o JsonEscape(Drop(s, 1))

JsonQuote(s) == "\"" \o JsonEscape(s) \o "\""

\* k1 < k2 for two dict keys sorted() can compare.
KeyLess(k1, k2) ==
    IF TypeOf(k1) = "str" THEN StrLess(ValOf(k1), ValOf(k2))
    ELSE ValOf(k1) < ValOf(k2)

\* sorted() raises TypeError when it compares a str key with an int key.
Sortable(items) ==
    \A i, j \in 1..Len(items) : TypeOf(items[i][1]) = TypeOf(items[j][1])

RECURSIVE SortItems(_)
SortItems(items) ==
    IF Len(items) <= 1 THEN items
    ELSE LET rest == SortItems(Tail(items))
             x == Head(items)
             n == Cardinality({i \in 1..Len(rest) : KeyLess(rest[i][1], x[1])})
         IN SubSeq(rest, 1, n) \o <<x>> \o SubSeq(rest, n + 1, Len(rest))

\* The first raised outcome of a sequence of outcomes, if any.
FirstRaise(outs) ==
    IF \E i \in 1..Len(outs) : IsRaise(outs[i])
    THEN outs[CHOOSE i \in 1..Len(outs) :
                 IsRaise(outs[i]) /\ \A j \in 1..(i - 1) : ~IsRaise(outs[j])]
    ELSE PyNone

\* The text of a dict key: json.dumps turns an int key into a string.
JsonKey(k) ==
    CASE TypeOf(k) = "str" -> PyStr(JsonQuote(ValOf(k)))
      [] TypeOf(k) = "int" -> PyStr(JsonQuote(IntStr(ValOf(k))))
      [] OTHER -> Raise("TypeError")

\* json.dumps(v, sort_keys=True, separators=(",", ":")): PyStr(text) or a raise.
RECURSIVE JsonDumps(_)
JsonDumps(v) ==
    CASE TypeOf(v) = "NoneType" -> PyStr("null")
      [] TypeOf(v) = "bool" -> PyStr(IF ValOf(v) THEN "true" ELSE "false")
      [] TypeOf(v) = "int" -> PyStr(IntStr(ValOf(v)))
      [] TypeOf(v) = "str" -> PyStr(JsonQuote(ValOf(v)))
      [] TypeOf(v) \in {"list", "tuple"} ->
            LET outs == [i \in 1..Len(ValOf(v)) |-> JsonDumps(ValOf(v)[i])]
            IN  IF IsRaise(FirstRaise(outs)) THEN FirstRaise(outs)
                ELSE PyStr("[" \o Join([i \in 1..Len(outs) |-> ValOf(outs[i])], ",") \o "]")
      [] TypeOf(v) = "dict" ->
            IF ~Sortable(ValOf(v)) THEN Raise("TypeError")
            ELSE LET items == SortItems(ValOf(v))
                     keys == [i \in 1..Len(items) |-> JsonKey(items[i][1])]
                     outs == [i \in 1..Len(items) |-> JsonDumps(items[i][2])]
                 IN  IF IsRaise(FirstRaise(keys)) THEN FirstRaise(keys)
                     ELSE IF IsRaise(FirstRaise(outs)) THEN FirstRaise(outs)
                     ELSE PyStr("{" \o Join([i \in 1..Len(items) |->
                                   ValOf(keys[i]) \o ":" \o ValOf(outs[i])], ",") \o "}")
      [] OTHER -> Raise("TypeError")

jsonify(v) ==
    LET d == JsonDumps(v)
    IN IF IsRaise(d) THEN d ELSE Response(ValOf(d) \o "\n", "application/json")

----------------------------------------------------------------------------
(* json.loads, the parse a client applies to a JSON payload.  A parse step  *)
(* yields [ok, val, rest]: whether it succeeded, the value, the text left.  *)

ParseFail == [ok |-> FALSE, val |-> PyNone, rest |-> ""]
ParseOk(v, rest) == [ok |-> TRUE, val |-> v, rest |-> rest]

RECURSIVE SkipWs(_)
SkipWs(s) ==
    IF s # "" /\ Char(s, 1) \in {" ", "\n", "\t", "\r"} THEN SkipWs(Drop(s, 1)) ELSE s

\* The rest of a string literal, after its opening quote.
RECURSIVE ParseStrBody(_, _)
ParseStrBody(s, acc) ==
    IF s = "" THEN ParseFail
    ELSE IF Char(s, 1) = "\"" THEN ParseOk(PyStr(acc), Drop(s, 1))
    ELSE IF Char(s, 1) = "\\" THEN
        IF Len(s) >= 2 /\ Char(s, 2) \in {"\"", "\\", "/"}
        THEN ParseStrBody(Drop(s, 2), acc \o Char(s, 2))
        ELSE ParseFail
    ELSE ParseStrBody(Drop(s, 1), acc \o Char(s, 1))

RECURSIVE ParseDigits(_, _)
ParseDigits(s, acc) ==
    IF s # "" /\ IsDigit(Char(s, 1))
    THEN ParseDigits(Drop(s, 1), 10 * acc + DigitVal(Char(s, 1)))
    ELSE ParseOk(PyInt(acc), s)

ParseNumber(s) ==
    IF StartsWith(s, "-") THEN
        IF Len(s) >= 2 /\ IsDigit(Char(s, 2))
        THEN LET p == ParseDigits(Drop(s, 1), 0)
             IN ParseOk(PyInt(0 - ValOf(p.val)), p.rest)
        ELSE ParseFail
    ELSE IF s # "" /\ IsDigit(Char(s, 1)) THEN ParseDigits(s, 0)
    ELSE ParseFail

\* d[k] = v on the items of a dict: a repeated key keeps its place.
SetItem(items, k, v) ==
    IF \E i \in 1..Len(items) : items[i][1] = k
    THEN [i \in 1..Len(items) |-> IF items[i][1] = k THEN <<k, v>> ELSE items[i]]
    ELSE Append(items, <<k, v>>)

RECURSIVE ParseValue(_)
RECURSIVE ParseElems(_, _)
RECURSIVE ParseMembers(_, _)

ParseValue(s) ==
    IF StartsWith(s, "{") THEN
        LET t == SkipWs(Drop(s, 1))
        IN IF StartsWith(t, "}") THEN ParseOk(PyDict(<<>>), Drop(t, 1))
           ELSE ParseMembers(t, <<>>)
    ELSE IF StartsWith(s, "[") THEN
        LET t == SkipWs(Drop(s, 1))
        IN IF StartsWith(t, "]") THEN ParseOk(PyList(<<>>), Drop(t, 1))
           ELSE ParseElems(t, <<>>)
    ELSE IF StartsWith(s, "\"") THEN ParseStrBody(Drop(s, 1), "")
    ELSE IF StartsWith(s, "true") THEN ParseOk(PyBool(TRUE), Drop(s, 4))
    ELSE IF StartsWith(s, "false") THEN ParseOk(PyBool(FALSE), Drop(s, 5))
    ELSE IF StartsWith(s, "null") THEN ParseOk(PyNone, Drop(s, 4))
    ELSE ParseNumber(s)

ParseElems(s, acc) ==
    LET p == ParseValue(s)
        t == SkipWs(p.rest)
    IN  IF ~p.ok THEN ParseFail
        ELSE IF StartsWith(t, ",") THEN ParseElems(SkipWs(Drop(t, 1)), Append(acc, p.val))
        ELSE IF StartsWith(t, "]") THEN ParseOk(PyList(Append(acc, p.val)), Drop(t, 1))
        ELSE ParseFail

ParseMembers(s, acc) ==
    LET k == IF StartsWith(s, "\"") THEN ParseStrBody(Drop(s, 1), "") ELSE ParseFail
        c == SkipWs(k.rest)
        p == IF k.ok /\ StartsWith(c, ":") THEN ParseValue(SkipWs(Drop(c, 1))) ELSE ParseFail
        t == SkipWs(p.rest)
    IN  IF ~p.ok THEN ParseFail
        ELSE IF StartsWith(t, ",")
             THEN ParseMembers(SkipWs(Drop(t, 1)), SetItem(acc, k.val, p.val))
        ELSE IF StartsWith(t, "}")
             THEN ParseOk(PyDict(SetItem(acc, k.val, p.val)), Drop(t, 1))
        ELSE ParseFail

\* json.loads(text): the value, or a raise for text that is not JSON.
JsonLoads(text) ==
    LET p == ParseValue(SkipWs(text))
    IN IF p.ok /\ SkipWs(p.rest) = "" THEN p.val ELSE Raise("JSONDecodeError")


----------------------------------------------------------------------------
(* index.py *)

\* A local that is not assigned yet.
Unset == <<"unset">>
NoObject == [unset |-> TRUE]

\* os.getenv(name, default)
getenv(env, name, default) ==
    IF \E p \in env : p[1] = name
    THEN (CHOOSE p \in env : p[1] = name)[2]
    ELSE default

\* Event(): reads the live request.
Event(req) ==
    [body |-> req.data, headers |-> req.headers, method |-> req.method,
     query |-> req.args, path |-> req.path]

\* Mutant of Context: an empty HOSTNAME falls back to the default.
Context_or_default(env) ==
    [hostname |-> IF getenv(env, "HOSTNAME", "localhost") = "" THEN "localhost"
                  ELSE getenv(env, "HOSTNAME", "localhost")]

\* Context(): reads the environment.
Context(env) == [hostname |-> getenv(env, "HOSTNAME", "localhost")]

DefaultStatus == 200

\* bool(v) of a Python value.
Truthy(v) ==
    CASE TypeOf(v) = "NoneType" -> FALSE
      [] TypeOf(v) = "bool" -> ValOf(v)
      [] TypeOf(v) = "int" -> ValOf(v) # 0
      [] TypeOf(v) \in {"str", "bytes"} -> ValOf(v) # ""
      [] OTHER -> Len(ValOf(v)) > 0

\* Mutant of format_status_code: resp.get('statusCode') or 200.
format_status_code_or_default(r) ==
    IF Contains(r, PyStr("statusCode")) /\ Truthy(Lookup(r, PyStr("statusCode")))
    THEN Lookup(r, PyStr("statusCode"))
    ELSE PyInt(200)

format_status_code(r) ==
    IF Contains(r, PyStr("statusCode")) THEN Lookup(r, PyStr("statusCode"))
    ELSE PyInt(DefaultStatus)

\* Mutant of format_body: the body is passed on without str().
format_body_raw(r) ==
    IF ~Contains(r, PyStr("body")) THEN PyStr("")
    ELSE IF TypeOf(Lookup(r, PyStr("body"))) = "dict" THEN jsonify(Lookup(r, PyStr("body")))
    ELSE Lookup(r, PyStr("body"))

\* Mutant of format_body: no dict branch, a dict body goes through str().
format_body_str_only(r) ==
    IF ~Contains(r, PyStr("body")) THEN PyStr("")
    ELSE PyStr(PyStrOf(Lookup(r, PyStr("body"))))

\* Mutant of format_body: resp['body'] without the membership test.
format_body_unguarded(r) ==
    IF ~Contains(r, PyStr("body")) THEN Raise("KeyError")
    ELSE IF TypeOf(Lookup(r, PyStr("body"))) = "dict" THEN jsonify(Lookup(r, PyStr("body")))
    ELSE PyStr(PyStrOf(Lookup(r, PyStr("body"))))

format_body(r) ==
    IF ~Contains(r, PyStr("body")) THEN PyStr("")
    ELSE IF TypeOf(Lookup(r, PyStr("body"))) = "dict" THEN jsonify(Lookup(r, PyStr("body")))
    ELSE PyStr(PyStrOf(Lookup(r, PyStr("body"))))

\* Mutant of format_headers: the keys are walked in sorted order.
format_headers_sorted(r) ==
    IF ~Contains(r, PyStr("headers")) THEN PyList(<<>>)
    ELSE IF TypeOf(Lookup(r, PyStr("headers"))) = "dict" THEN
        LET items == SortItems(ValOf(Lookup(r, PyStr("headers"))))
        IN PyList([i \in 1..Len(items) |-> PyTuple(<<items[i][1], items[i][2]>>)])
    ELSE Lookup(r, PyStr("headers"))

\* Mutant of format_headers: a value that is no dict and no list of pairs raises.
format_headers_strict(r) ==
    IF ~Contains(r, PyStr("headers")) THEN PyList(<<>>)
    ELSE IF TypeOf(Lookup(r, PyStr("headers"))) = "dict" THEN
        LET items == ValOf(Lookup(r, PyStr("headers")))
        IN PyList([i \in 1..Len(items) |-> PyTuple(<<items[i][1], items[i][2]>>)])
    ELSE IF /\ TypeOf(Lookup(r, PyStr("headers"))) = "list"
            /\ \A i \in 1..Len(ValOf(Lookup(r, PyStr("headers")))) :
                  /\ TypeOf(ValOf(Lookup(r, PyStr("headers")))[i]) = "tuple"
                  /\ Len(ValOf(ValOf(Lookup(r, PyStr("headers")))[i])) = 2
         THEN Lookup(r, PyStr("headers"))
    ELSE Raise("TypeError")

format_headers(r) ==
    IF ~Contains(r, PyStr("headers")) THEN PyList(<<>>)
    ELSE IF TypeOf(Lookup(r, PyStr("headers"))) = "dict" THEN
        LET items == ValOf(Lookup(r, PyStr("headers")))
        IN PyList([i \in 1..Len(items) |-> PyTuple(<<items[i][1], items[i][2]>>)])
    ELSE Lookup(r, PyStr("headers"))

\* Mutant of format_response: None gives a triple with an empty header list.
format_response_triple(r) ==
    IF TypeOf(r) = "NoneType" THEN PyTuple(<<PyStr(""), PyInt(200), PyList(<<>>)>>)
    ELSE LET statusCode == format_status_code(r)
             body == format_body(r)
             headers == format_headers(r)
         IN  IF IsRaise(statusCode) THEN statusCode
             ELSE IF IsRaise(body) THEN body
             ELSE IF IsRaise(headers) THEN headers
             ELSE PyTuple(<<body, statusCode, headers>>)

\* The returned tuple, or the exception a formatter raised.
format_response(r) ==
    IF TypeOf(r) = "NoneType" THEN PyTuple(<<PyStr(""), PyInt(DefaultStatus)>>)
    ELSE LET statusCode == format_status_code(r)
             body == format_body(r)
             headers == format_headers(r)
         IN  IF IsRaise(statusCode) THEN statusCode
             ELSE IF IsRaise(body) THEN body
             ELSE IF IsRaise(headers) THEN headers
             ELSE PyTuple(<<body, statusCode, headers>>)

----------------------------------------------------------------------------
(* Inputs. *)

Requests == 1..NumRequests

\* The methods of the two routes of call_handler.
Methods == {"GET", "PUT", "POST", "PATCH", "DELETE"}

\* Requests Flask routes to call_handler.
RequestInputs ==
    {[method |-> "GET", path |-> "/foo/bar", data |-> "", args |-> <<>>,
      headers |-> << <<"Accept", "*/*">> >>],
     [method |-> "POST", path |-> "/", data |-> "{\"n\":1}", args |-> << <<"q", "1">> >>,
      headers |-> << <<"Content-Type", "application/json">> >>]}

\* The process environment: HOSTNAME unset, set to the empty string, set.
Environs == {{}, {<<"HOSTNAME", "">>}, {<<"HOSTNAME", "node-1">>}}

SeqsUpTo(S, n) == UNION {[1..k -> S] : k \in 0..n}

\* The dicts of at most n of the given items, in every insertion order.
DictsOver(S, n) ==
    {PyDict(q) : q \in {q \in SeqsUpTo(S, n) :
                          \A i, j \in 1..Len(q) : i # j => q[i][1] # q[j][1]}}

\* A key the handler left out of its result.
Absent == <<"absent">>

\* The dict a handler returns, with the keys it chose to set.
MkResult(s, b, h) ==
    PyDict((IF s = Absent THEN <<>> ELSE << <<PyStr("statusCode"), s>> >>)
           \o (IF b = Absent THEN <<>> ELSE << <<PyStr("body"), b>> >>)
           \o (IF h = Absent THEN <<>> ELSE << <<PyStr("headers"), h>> >>))

StatusOpts == {Absent, PyInt(0), PyInt(201), PyInt(404), PyNone}

BodyItems ==
    {<<PyStr("a"), PyInt(1)>>, <<PyStr("ok"), PyBool(TRUE)>>,
     <<PyStr("b"), PyStr("x\"y")>>, <<PyStr("n"), PyNone>>,
     <<PyStr("l"), PyList(<<PyInt(1), PyStr("x")>>)>>,
     <<PyStr("d"), PyDict(<< <<PyStr("c"), PyInt(-2)>> >>)>>,
     <<PyInt(1), PyInt(2)>>,
     <<PyStr("t"), PyTuple(<<PyInt(1)>>)>>,
     <<PyStr("y"), PyBytes("x")>>}

BodyScalars ==
    {PyStr("hello"), PyStr(""), PyInt(42), PyInt(0), PyInt(-7), PyBool(TRUE), PyNone,
     PyList(<<PyInt(1), PyStr("x")>>), PyBytes("x")}

BodyOpts == {Absent} \cup BodyScalars \cup DictsOver(BodyItems, MaxEntries)

BodyFew ==
    {Absent, PyStr("hello"), PyDict(<< <<PyStr("a"), PyInt(1)>> >>),
     PyDict(<< <<PyStr("y"), PyBytes("x")>> >>)}

HeaderItems ==
    {<<PyStr("X-A"), PyStr("1")>>, <<PyStr("X-B"), PyStr("2")>>,
     <<PyStr("X-Test"), PyStr("yes")>>}

HeaderLists ==
    {PyList([i \in 1..Len(q) |-> PyTuple(<<q[i][1], q[i][2]>>)]) :
        q \in SeqsUpTo(HeaderItems, MaxEntries)}

\* Values that are neither a dict nor a list of (name, value) pairs.
HeaderOthers == {PyInt(5), PyStr("abc"), PyNone, PyList(<<PyInt(1)>>)}

HeaderOpts ==
    {Absent} \cup DictsOver(HeaderItems, MaxEntries) \cup HeaderLists \cup HeaderOthers

HeaderFew == {Absent, PyDict(<< <<PyStr("X-Test"), PyStr("yes")>> >>)}

\* What handler.handle may return: None, or a dict with any of the three keys.
HandlerResults ==
    {PyNone}
    \cup {MkResult(s, b, h) : s \in StatusOpts, b \in BodyOpts, h \in HeaderFew}
    \cup {MkResult(s, b, h) : s \in StatusOpts, b \in BodyFew, h \in HeaderOpts}

\* A few of them, for several requests in flight.
SampleResults ==
    {PyNone,
     MkResult(Absent, Absent, Absent),
     MkResult(PyInt(201), PyDict(<< <<PyStr("ok"), PyBool(TRUE)>> >>),
              PyDict(<< <<PyStr("X-Test"), PyStr("yes")>> >>)),
     MkResult(PyInt(0), PyStr("hello"), PyList(<<PyTuple(<<PyStr("X-A"), PyStr("1")>>)>>)),
     MkResult(Absent, PyInt(42), PyInt(5)),
     MkResult(PyInt(404), PyDict(<< <<PyStr("y"), PyBytes("x")>> >>), Absent)}

----------------------------------------------------------------------------
(* call_handler, one step per statement, for request r.  rs is the set of   *)
(* values the handler may return.                                           *)

\* Flask routes a request to call_handler (lines 58-60).
Receive(r) ==
    /\ pc[r] = "waiting"
    /\ \E req \in RequestInputs :
          /\ req.method \in Methods
          /\ request' = [request EXCEPT ![r] = req]
    /\ pc' = [pc EXCEPT ![r] = "routed"]
    /\ UNCHANGED <<environ, event, context, handlerCalls, response_data, resp>>

\* event = Event() (line 61)
NewEvent(r) ==
    /\ pc[r] = "routed"
    /\ event' = [event EXCEPT ![r] = Event(request[r])]
    /\ pc' = [pc EXCEPT ![r] = "event"]
    /\ UNCHANGED <<environ, request, context, handlerCalls, response_data, resp>>

\* context = Context() (line 62)
NewContext(r) ==
    /\ pc[r] = "event"
    /\ context' = [context EXCEPT ![r] = Context(environ)]
    /\ pc' = [pc EXCEPT ![r] = "context"]
    /\ UNCHANGED <<environ, request, event, handlerCalls, response_data, resp>>

\* handler.handle(event, context) is entered (line 63).
HandleCall(r) ==
    /\ pc[r] = "context"
    /\ handlerCalls' = [handlerCalls EXCEPT ![r] = Append(@, <<event[r], context[r]>>)]
    /\ pc' = [pc EXCEPT ![r] = "in_handler"]
    /\ UNCHANGED <<environ, request, event, context, response_data, resp>>

\* The handler returns a value, assigned to response_data (line 63).
HandleReturn(r, rs) ==
    /\ pc[r] = "in_handler"
    /\ \E v \in rs : response_data' = [response_data EXCEPT ![r] = v]
    /\ pc' = [pc EXCEPT ![r] = "handled"]
    /\ UNCHANGED <<environ, request, event, context, handlerCalls, resp>>

\* Mutant of HandleRaise: the failure is caught and the handler called again.
HandleRaise_retry(r) ==
    /\ pc[r] = "in_handler"
    /\ pc' = [pc EXCEPT ![r] = "context"]
    /\ UNCHANGED <<environ, request, event, context, handlerCalls, response_data, resp>>

\* The handler raises: nothing in call_handler catches it (line 63).
HandleRaise(r) ==
    /\ pc[r] = "in_handler"
    /\ pc' = [pc EXCEPT ![r] = "handler_raised"]
    /\ UNCHANGED <<environ, request, event, context, handlerCalls, response_data, resp>>

\* Mutant of FormatResponse: response_data is one module-level variable, so a
\* request formats whatever any request's handler returned.
FormatResponse_shared(r) ==
    /\ pc[r] = "handled"
    /\ \E q \in Requests :
          /\ response_data[q] # Unset
          /\ LET out == format_response(response_data[q])
             IN  IF IsRaise(out)
                 THEN /\ pc' = [pc EXCEPT ![r] = "format_raised"]
                      /\ resp' = resp
                 ELSE /\ pc' = [pc EXCEPT ![r] = "returned"]
                      /\ resp' = [resp EXCEPT ![r] = out]
    /\ UNCHANGED <<environ, request, event, context, handlerCalls, response_data>>

\* resp = format_response(response_data); return resp (lines 65-66).
FormatResponse(r) ==
    /\ pc[r] = "handled"
    /\ LET out == format_response(response_data[r])
       IN  IF IsRaise(out)
           THEN /\ pc' = [pc EXCEPT ![r] = "format_raised"]
                /\ resp' = resp
           ELSE /\ pc' = [pc EXCEPT ![r] = "returned"]
                /\ resp' = [resp EXCEPT ![r] = out]
    /\ UNCHANGED <<environ, request, event, context, handlerCalls, response_data>>

call_handler(r, rs) ==
    \/ Receive(r)
    \/ NewEvent(r)
    \/ NewContext(r)
    \/ HandleCall(r)
    \/ HandleReturn(r, rs)
    \/ HandleRaise(r)
    \/ FormatResponse(r)

Init ==
    /\ environ \in Environs
    /\ pc = [r \in Requests |-> "waiting"]
    /\ request = [r \in Requests |-> NoObject]
    /\ event = [r \in Requests |-> NoObject]
    /\ context = [r \in Requests |-> NoObject]
    /\ handlerCalls = [r \in Requests |-> <<>>]
    /\ response_data = [r \in Requests |-> Unset]
    /\ resp = [r \in Requests |-> Unset]

\* Requests served concurrently, one worker thread each.
Next == \E r \in Requests : call_handler(r, SampleResults)

Spec == Init /\ [][Next]_vars

\* One request at a time, over every handler result of the bounded set.
NextOne == \E r \in {1} : call_handler(r, HandlerResults)

SpecOne == Init /\ [][NextOne]_vars


----------------------------------------------------------------------------
(* Properties. *)

Returned(r) == pc[r] = "returned"
IsDictResult(r) == response_data[r] # Unset /\ TypeOf(response_data[r]) = "dict"

\* The entries of a handler result, read off its items.
HasEntry(d, name) == \E i \in 1..Len(ValOf(d)) : ValOf(d)[i][1] = PyStr(name)
EntryOf(d, name) ==
    ValOf(d)[CHOOSE i \in 1..Len(ValOf(d)) : ValOf(d)[i][1] = PyStr(name)][2]

\* The components of the tuple returned to Flask.
RespBody(r) == ValOf(resp[r])[1]
RespStatus(r) == ValOf(resp[r])[2]
RespHeaders(r) == ValOf(resp[r])[3]

\* Values JSON represents as they are: a parse of their text gives them back.
RECURSIVE JsonNative(_)
JsonNative(v) ==
    CASE TypeOf(v) \in {"NoneType", "bool", "int", "str"} -> TRUE
      [] TypeOf(v) = "list" -> \A i \in 1..Len(ValOf(v)) : JsonNative(ValOf(v)[i])
      [] TypeOf(v) = "dict" ->
            \A i \in 1..Len(ValOf(v)) :
                TypeOf(ValOf(v)[i][1]) = "str" /\ JsonNative(ValOf(v)[i][2])
      [] OTHER -> FALSE

\* Values jsonify accepts: keys of one sortable type, no bytes anywhere.
RECURSIVE Serialisable(_)
Serialisable(v) ==
    CASE TypeOf(v) \in {"NoneType", "bool", "int", "str"} -> TRUE
      [] TypeOf(v) \in {"list", "tuple"} ->
            \A i \in 1..Len(ValOf(v)) : Serialisable(ValOf(v)[i])
      [] TypeOf(v) = "dict" ->
            /\ \A i \in 1..Len(ValOf(v)) :
                  /\ TypeOf(ValOf(v)[i][1]) \in {"str", "int"}
                  /\ Serialisable(ValOf(v)[i][2])
            /\ Cardinality({TypeOf(ValOf(v)[i][1]) : i \in 1..Len(ValOf(v))}) <= 1
      [] OTHER -> FALSE

\* A list of (name, value) pairs.
IsPairList(h) ==
    /\ TypeOf(h) = "list"
    /\ \A i \in 1..Len(ValOf(h)) :
          TypeOf(ValOf(h)[i]) = "tuple" /\ Len(ValOf(ValOf(h)[i])) = 2

\* A headers value that is neither a dict nor a list of pairs.
MalformedHeaders(r) ==
    /\ IsDictResult(r)
    /\ HasEntry(response_data[r], "headers")
    /\ TypeOf(EntryOf(response_data[r], "headers")) # "dict"
    /\ ~IsPairList(EntryOf(response_data[r], "headers"))

\* The body of the result is a dict jsonify cannot serialise.
UnserialisableBody(r) ==
    /\ IsDictResult(r)
    /\ HasEntry(response_data[r], "body")
    /\ TypeOf(EntryOf(response_data[r], "body")) = "dict"
    /\ ~Serialisable(EntryOf(response_data[r], "body"))

\* C1 as stated: when the handler returns None the response is the triple
\* ("", 200, []), with the empty header list present.
C1_NoneGivesTriple ==
    \A r \in Requests :
        (pc[r] \in {"returned", "format_raised"} /\ response_data[r] = PyNone)
        => /\ Returned(r)
           /\ resp[r] = PyTuple(<<PyStr(""), PyInt(200), PyList(<<>>)>>)

\* C1 amended: when the handler returns None, format_response returns the pair
\* ("", 200), which has no headers component, and no other rule applies: the
\* call never raises.
C1_NoneGivesPair ==
    \A r \in Requests :
        (pc[r] \in {"returned", "format_raised"} /\ response_data[r] = PyNone)
        => /\ Returned(r)
           /\ resp[r] = PyTuple(<<PyStr(""), PyInt(200)>>)
           /\ Len(ValOf(resp[r])) = 2

C1_Witness == \E r \in Requests : Returned(r) /\ response_data[r] = PyNone

\* C2: for a mapping result the response status is 200 when there is no
\* statusCode entry, and the entry's value unmodified when there is one, falsy
\* values (0, None) included.
C2_StatusVerbatim ==
    \A r \in Requests :
        (Returned(r) /\ IsDictResult(r))
        => IF HasEntry(response_data[r], "statusCode")
           THEN RespStatus(r) = EntryOf(response_data[r], "statusCode")
           ELSE RespStatus(r) = PyInt(200)

C2_Witness ==
    \E r \in Requests :
        /\ Returned(r) /\ IsDictResult(r)
        /\ HasEntry(response_data[r], "statusCode")
        /\ EntryOf(response_data[r], "statusCode") = PyInt(0)
        /\ RespStatus(r) = PyInt(0)

\* The text str() gives the bodies of the model that are neither str nor int.
ReprExpected(v) ==
    CASE v = PyBool(TRUE) -> "True"
      [] v = PyNone -> "None"
      [] v = PyList(<<PyInt(1), PyStr("x")>>) -> "[1, 'x']"
      [] v = PyBytes("x") -> "b'x'"

\* C3: for a mapping result the response body is "" when there is no body
\* entry, and for a body that is not a dict it is the str of the body's string
\* representation ("hello" gives "hello", 42 gives "42"); either way a str.
C3_BodyText ==
    \A r \in Requests :
        (Returned(r) /\ IsDictResult(r))
        => IF ~HasEntry(response_data[r], "body") THEN RespBody(r) = PyStr("")
           ELSE LET b == EntryOf(response_data[r], "body")
                IN  TypeOf(b) # "dict"
                    => /\ TypeOf(RespBody(r)) = "str"
                       /\ b = PyStr("hello") => RespBody(r) = PyStr("hello")
                       /\ b = PyInt(42) => RespBody(r) = PyStr("42")
                       /\ TypeOf(b) = "str" => ValOf(RespBody(r)) = ValOf(b)
                       /\ TypeOf(b) = "int" => JsonLoads(ValOf(RespBody(r))) = b
                       /\ TypeOf(b) \notin {"str", "int"}
                             => ValOf(RespBody(r)) = ReprExpected(b)

C3_Witness ==
    \E r \in Requests :
        /\ Returned(r) /\ IsDictResult(r)
        /\ HasEntry(response_data[r], "body")
        /\ EntryOf(response_data[r], "body") = PyInt(42)
        /\ RespBody(r) = PyStr("42")

\* The response body is a JSON payload that parses back to a dict equal to b.
RoundTrips(r, b) ==
    /\ TypeOf(RespBody(r)) = "Response"
    /\ RespBody(r)[3] = "application/json"
    /\ LET parsed == JsonLoads(RespBody(r)[2])
       IN TypeOf(parsed) = "dict" /\ PyEq(parsed, b)

\* C4 as stated: for every mapping result whose body is a dict, the response
\* body is the dict's serialisation and parsing it back gives an equal dict.
C4_EveryDictRoundTrips ==
    \A r \in Requests :
        (Returned(r) /\ IsDictResult(r) /\ HasEntry(response_data[r], "body")
           /\ TypeOf(EntryOf(response_data[r], "body")) = "dict")
        => RoundTrips(r, EntryOf(response_data[r], "body"))

\* C4 amended: for a mapping result whose body is a dict with str keys and
\* JSON-native values (None, bool, int, str, lists and dicts of these),
\* formatting succeeds, the response body is the JSON response holding the
\* dict's serialisation ({"a": 1} gives {"a":1}), and parsing the payload back
\* gives a dict equal to the body.
C4_NativeDictRoundTrips ==
    \A r \in Requests :
        (pc[r] \in {"returned", "format_raised"} /\ IsDictResult(r)
           /\ HasEntry(response_data[r], "body")
           /\ TypeOf(EntryOf(response_data[r], "body")) = "dict"
           /\ JsonNative(EntryOf(response_data[r], "body")))
        => /\ Returned(r)
           /\ RoundTrips(r, EntryOf(response_data[r], "body"))
           /\ EntryOf(response_data[r], "body") = PyDict(<< <<PyStr("a"), PyInt(1)>> >>)
                 => RespBody(r)[2] = "{\"a\":1}\n"

C4_Witness ==
    \E r \in Requests :
        /\ Returned(r) /\ IsDictResult(r)
        /\ HasEntry(response_data[r], "body")
        /\ EntryOf(response_data[r], "body") = PyDict(<< <<PyStr("a"), PyInt(1)>> >>)
        /\ RoundTrips(r, PyDict(<< <<PyStr("a"), PyInt(1)>> >>))

C6_HandlerOnce ==
    \A r \in Requests :
        /\ Len(handlerCalls[r]) <= 1
        /\ pc[r] \in {"waiting", "routed", "event", "context"}
              => Len(handlerCalls[r]) = 0 /\ response_data[r] = Unset /\ resp[r] = Unset
        /\ pc[r] \in {"in_handler", "handled", "handler_raised", "returned", "format_raised"}
              => /\ Len(handlerCalls[r]) = 1
                 /\ handlerCalls[r][1][1] = event[r]
                 /\ handlerCalls[r][1][2] = context[r]
                 /\ event[r].path = request[r].path
                 /\ event[r].method = request[r].method
                 /\ event[r].body = request[r].data
                 /\ "hostname" \in DOMAIN context[r]
        /\ pc[r] \in {"in_handler", "handler_raised"}
              => response_data[r] = Unset /\ resp[r] = Unset
        /\ resp[r] # Unset => pc[r] = "returned"

C6_Witness ==
    \E r, q \in Requests :
        /\ pc[r] = "handler_raised" /\ Len(handlerCalls[r]) = 1 /\ resp[r] = Unset
        /\ pc[q] = "returned" /\ Len(handlerCalls[q]) = 1

\* C7: formatting keeps no state: under every interleaving what a request
\* returns is the format of its own handler result and of nothing else.
C7_OwnResultOnly ==
    \A r \in Requests :
        /\ Returned(r) => resp[r] = format_response(response_data[r])
        /\ pc[r] = "format_raised" => IsRaise(format_response(response_data[r]))

C7_Witness ==
    \E r, q \in Requests :
        /\ Returned(r) /\ Returned(q)
        /\ response_data[r] # response_data[q]
        /\ resp[r] # resp[q]

ContextBuilt(r) == pc[r] \notin {"waiting", "routed", "event"}

\* C8 as stated: the hostname is HOSTNAME when it is set to a non-empty value
\* and "localhost" when it is unset or set to the empty string.
C8_EmptyFallsBack ==
    \A r \in Requests :
        ContextBuilt(r)
        => context[r].hostname
             = IF \E p \in environ : p[1] = "HOSTNAME" /\ p[2] # ""
               THEN (CHOOSE p \in environ : p[1] = "HOSTNAME")[2]
               ELSE "localhost"

\* C8 amended: the hostname is the value of HOSTNAME whenever the variable is
\* set, the empty string included, and "localhost" only when it is unset;
\* building the Context always succeeds.
C8_HostnameFromEnv ==
    \A r \in Requests :
        /\ ContextBuilt(r)
              => context[r].hostname
                   = IF \E p \in environ : p[1] = "HOSTNAME"
                     THEN (CHOOSE p \in environ : p[1] = "HOSTNAME")[2]
                     ELSE "localhost"
        /\ pc[r] = "event" => ENABLED NewContext(r)

C8_Witness ==
    \E r \in Requests :
        /\ ContextBuilt(r)
        /\ <<"HOSTNAME", "">> \in environ
        /\ context[r].hostname = ""

\* C9 as stated: format_response raises for no handler result that is None or
\* a mapping.
C9_NeverRaises == \A r \in Requests : pc[r] # "format_raised"

\* C9 amended: format_response returns a response for None and for every
\* mapping, whatever keys it has, unless the body is a dict that jsonify cannot
\* serialise (a value such as bytes, or keys sorted() cannot compare).
C9_RaisesOnlyOnBody ==
    \A r \in Requests :
        /\ pc[r] = "format_raised" => UnserialisableBody(r)
        /\ (pc[r] \in {"returned", "format_raised"} /\ ~UnserialisableBody(r))
              => Returned(r) /\ TypeOf(resp[r]) = "tuple"

C9_Witness ==
    \E r \in Requests :
        /\ Returned(r)
        /\ response_data[r] = PyDict(<<>>)
        /\ resp[r] = PyTuple(<<PyStr(""), PyInt(200), PyList(<<>>)>>)

\* C10 as stated: a headers value that is neither a mapping nor a list of
\* pairs ends the request in an error; no response carrying it is returned.
C10_MalformedHeadersFail ==
    \A r \in Requests : MalformedHeaders(r) => ~Returned(r)

\* C10 amended: a headers value that is neither a dict nor a list of pairs is
\* passed through: format_response raises nothing on its account and
\* call_handler returns the triple carrying that very value to Flask.
C10_MalformedHeadersPassThrough ==
    \A r \in Requests :
        MalformedHeaders(r)
        => /\ Returned(r) => RespHeaders(r) = EntryOf(response_data[r], "headers")
           /\ pc[r] = "format_raised" => UnserialisableBody(r)

C10_Witness ==
    \E r \in Requests :
        /\ Returned(r) /\ MalformedHeaders(r)
        /\ EntryOf(response_data[r], "headers") = PyInt(5)
        /\ RespHeaders(r) = PyInt(5)


====
